---- MODULE Spec2Model ----
(***************************************************************************)
(* Model of the address-book service's storage core:                       *)
(*   src/models/contact.py        Contact                                  *)
(*   src/storage/memory_store.py  MemoryStore (primary map + three indexes)*)
(*   src/services/contact_service.py  the callers of the store             *)
(*                                                                         *)
(* Python strings are sequences of one-character strings, so that          *)
(* lower(), strip(), split() and the `in` substring test are computed and  *)
(* not assumed.  A dict is a function whose DOMAIN is its key set.         *)
(***************************************************************************)
EXTENDS Integers, Sequences, FiniteSets, TLC

(***************************************************************************)
(* Bounds of the model.                                                    *)
(***************************************************************************)
\* number of contacts ever created (ids are 1..MaxCreates, never reused)
MaxCreates == 2
\* number of concurrent callers of the shared store
NumCallers == 2

(***************************************************************************)
(* str methods used by the store.                                          *)
(***************************************************************************)
LowerChar(c) ==
    CASE c = "A" -> "a"
      [] c = "S" -> "s"
      [] c = "X" -> "x"
      [] OTHER -> c

\* str.lower()
Lower(s) == [k \in 1..Len(s) |-> LowerChar(s[k])]

IsSpace(c) == c = " "

RECURSIVE LStrip(_)
LStrip(s) ==
    IF s = << >> THEN << >>
    ELSE IF IsSpace(Head(s)) THEN LStrip(Tail(s)) ELSE s

RECURSIVE RStrip(_)
RStrip(s) ==
    IF s = << >> THEN << >>
    ELSE IF IsSpace(s[Len(s)]) THEN RStrip(SubSeq(s, 1, Len(s) - 1)) ELSE s

\* str.strip()
Strip(s) == RStrip(LStrip(s))

\* str.split(): the maximal runs of non-whitespace characters, in order.
\* cur is the word being read, acc the words already completed.
RECURSIVE SplitFrom(_, _, _)
SplitFrom(s, cur, acc) ==
    IF s = << >>
    THEN IF cur = << >> THEN acc ELSE Append(acc, cur)
    ELSE IF IsSpace(Head(s))
         THEN SplitFrom(Tail(s), << >>, IF cur = << >> THEN acc ELSE Append(acc, cur))
         ELSE SplitFrom(Tail(s), Append(cur, Head(s)), acc)

Split(s) == SplitFrom(s, << >>, << >>)

\* `q in s` for two str values: q occurs in s as a contiguous substring.
Contains(q, s) ==
    \E k \in 0..(Len(s) - Len(q)) : SubSeq(s, k + 1, k + Len(q)) = q

(***************************************************************************)
(* dict operations.                                                        *)
(***************************************************************************)
EmptyDict == << >>

\* d[k] = v
Put(d, k, v) == [x \in (DOMAIN d) \cup {k} |-> IF x = k THEN v ELSE d[x]]

\* del d[k]
Del(d, k) == [x \in (DOMAIN d) \ {k} |-> d[x]]

\* Python's None
None == [none |-> TRUE]

\* d.get(k)
DictGet(d, k) == IF k \in DOMAIN d THEN d[k] ELSE None

Range(f) == {f[x] : x \in DOMAIN f}

(***************************************************************************)
(* Inputs: the strings callers pass.                                       *)
(***************************************************************************)
\* "Al Sm", "al Smi": one shared word, and "sm" inside "smi"
Names ==
    { <<"A", "l", " ", "S", "m">>,
      <<"a", "l", " ", "S", "m", "i">> }

\* "12", "23"
Phones == { <<"1", "2">>, <<"2", "3">> }

\* "A@x", "b@y": the first is indexed under "a@x"
Emails == { <<"A", "@", "x">>, <<"b", "@", "y">> }

\* "Sm ", "smi", "3", "A", "@X", "", "  "
Queries ==
    { <<"S", "m", " ">>, <<"s", "m", "i">>, <<"3">>, <<"A">>, <<"@", "X">>,
      << >>, <<" ", " ">> }

Ids == 1..MaxCreates

\* ids a caller may ask for: every id that can exist, and one that never does
AskedIds == 0..MaxCreates

Callers == 1..NumCallers

VARIABLES
    contacts,       \* MemoryStore._contacts:    id -> Contact
    name_index,     \* MemoryStore._name_index:  lowercased word -> set of ids
    phone_index,    \* MemoryStore._phone_index: phone -> id
    email_index,    \* MemoryStore._email_index: lowercased email -> id
    nextId,         \* the next id Contact.__post_init__ will generate
    lastOp,         \* the call the sequential caller has just made, with its
                    \* arguments and its result (for update also `was`, the contact
                    \* as stored before the call)
    created,        \* history: id -> the triple passed to create, kept until the
                    \* contact is updated or deleted (maintained under SpecTracked)
    held,           \* the reference to a Contact the caller kept from a result, with
                    \* the fields it read then (maintained under SpecAlias)
    lock,           \* MemoryStore._lock: its owner, or NoOwner
    pc,             \* per caller: where it stands inside a store operation
    local           \* per caller: the operation's arguments and local variables

vars == <<contacts, name_index, phone_index, email_index, nextId, lastOp, created,
          held, lock, pc, local>>

storeVars == <<contacts, name_index, phone_index, email_index>>
seqVars == <<lastOp, created, held>>
concVars == <<lock, pc, local>>

\* The four maps of the store as one value.
Store ==
    [contacts |-> contacts, name_index |-> name_index,
     phone_index |-> phone_index, email_index |-> email_index]

SetStore(S) ==
    /\ contacts' = S.contacts
    /\ name_index' = S.name_index
    /\ phone_index' = S.phone_index
    /\ email_index' = S.email_index

(***************************************************************************)
(* models/contact.py                                                       *)
(***************************************************************************)
\* Contact(name, phone, email) with the id __post_init__ generates
Contact(name, phone, email, id) ==
    [id |-> id, name |-> name, phone |-> phone, email |-> email]

\* hasattr(contact, field) for the fields callers send
HasAttr(field) == field \in {"id", "name", "phone", "email"}

\* the loop body of Contact.update_fields, had it not skipped 'id'
SetField_any(contact, field, value) ==
    IF HasAttr(field)
    THEN [contact EXCEPT ![field] = value]
    ELSE contact

\* one iteration of the loop of Contact.update_fields
SetField(contact, field, value) ==
    IF HasAttr(field) /\ field # "id"
    THEN [contact EXCEPT ![field] = value]
    ELSE contact

\* Contact.update_fields(**kwargs); kwargs is a dict, so its keys are distinct
RECURSIVE update_fields(_, _)
update_fields(contact, kwargs) ==
    IF DOMAIN kwargs = {} THEN contact
    ELSE LET f == CHOOSE x \in DOMAIN kwargs : TRUE
         IN update_fields(SetField(contact, f, kwargs[f]), Del(kwargs, f))

(***************************************************************************)
(* storage/memory_store.py: index maintenance                              *)
(***************************************************************************)
\* the loop over name_words of _update_indexes
RECURSIVE AddWords(_, _, _)
AddWords(index, words, id) ==
    IF words = << >> THEN index
    ELSE LET word == Head(words)
             withKey == IF word \notin DOMAIN index THEN Put(index, word, {}) ELSE index
         IN AddWords(Put(withKey, word, withKey[word] \cup {id}), Tail(words), id)

\* _update_indexes, had it keyed the email index by the email as given
update_indexes_raw_email(S, contact) ==
    [S EXCEPT
        !.name_index = AddWords(S.name_index, Split(Lower(contact.name)), contact.id),
        !.phone_index = Put(S.phone_index, contact.phone, contact.id),
        !.email_index = Put(S.email_index, contact.email, contact.id)]

\* _update_indexes, had it left an existing phone or email entry alone
update_indexes_first_wins(S, contact) ==
    [S EXCEPT
        !.name_index = AddWords(S.name_index, Split(Lower(contact.name)), contact.id),
        !.phone_index = IF contact.phone \in DOMAIN S.phone_index THEN S.phone_index
                        ELSE Put(S.phone_index, contact.phone, contact.id),
        !.email_index = IF Lower(contact.email) \in DOMAIN S.email_index THEN S.email_index
                        ELSE Put(S.email_index, Lower(contact.email), contact.id)]

\* _update_indexes, had it kept a phone entry that names another contact
update_indexes_keep_phone(S, contact) ==
    [S EXCEPT
        !.name_index = AddWords(S.name_index, Split(Lower(contact.name)), contact.id),
        !.phone_index = IF /\ contact.phone \in DOMAIN S.phone_index
                           /\ S.phone_index[contact.phone] # contact.id
                        THEN S.phone_index
                        ELSE Put(S.phone_index, contact.phone, contact.id),
        !.email_index = Put(S.email_index, Lower(contact.email), contact.id)]

\* MemoryStore._update_indexes(contact)
update_indexes(S, contact) ==
    [S EXCEPT
        !.name_index = AddWords(S.name_index, Split(Lower(contact.name)), contact.id),
        !.phone_index = Put(S.phone_index, contact.phone, contact.id),
        !.email_index = Put(S.email_index, Lower(contact.email), contact.id)]

\* the loop of _remove_from_indexes, had it stopped after the first word
DiscardWords_first(index, words, id) ==
    IF words = << >> THEN index
    ELSE LET word == Head(words)
         IN IF word \in DOMAIN index
            THEN LET discarded == Put(index, word, index[word] \ {id})
                 IN IF discarded[word] = {} THEN Del(discarded, word) ELSE discarded
            ELSE index

\* the loop over name_words, had it deleted each word's key with every id in it
DiscardWords_key(index, words, id) ==
    [word \in DOMAIN index \ Range(words) |-> index[word]]

\* the loop over name_words, had it kept the key of a word whose set became empty
DiscardWords_keep(index, words, id) ==
    [word \in DOMAIN index |->
        IF word \in Range(words) THEN index[word] \ {id} ELSE index[word]]

\* the loop over name_words of _remove_from_indexes
RECURSIVE DiscardWords(_, _, _)
DiscardWords(index, words, id) ==
    IF words = << >> THEN index
    ELSE LET word == Head(words)
             next ==
                 IF word \in DOMAIN index
                 THEN LET discarded == Put(index, word, index[word] \ {id})
                      IN IF discarded[word] = {} THEN Del(discarded, word) ELSE discarded
                 ELSE index
         IN DiscardWords(next, Tail(words), id)

\* MemoryStore._remove_from_indexes(contact)
remove_from_indexes(S, contact) ==
    [S EXCEPT
        !.name_index = DiscardWords(S.name_index, Split(Lower(contact.name)), contact.id),
        !.phone_index = IF contact.phone \in DOMAIN S.phone_index
                        THEN Del(S.phone_index, contact.phone) ELSE S.phone_index,
        !.email_index = IF Lower(contact.email) \in DOMAIN S.email_index
                        THEN Del(S.email_index, Lower(contact.email)) ELSE S.email_index]

(***************************************************************************)
(* storage/memory_store.py: the operations, each as store -> store/result  *)
(***************************************************************************)
\* create_contact, had it normalised the email it stores
create_contact_lowered(S, contact) ==
    LET kept == [contact EXCEPT !.email = Lower(contact.email)]
    IN update_indexes([S EXCEPT !.contacts = Put(S.contacts, kept.id, kept)], kept)

\* MemoryStore.create_contact(contact): the store afterwards
create_contact(S, contact) ==
    update_indexes([S EXCEPT !.contacts = Put(S.contacts, contact.id, contact)], contact)

\* MemoryStore.get_contact(contact_id)
get_contact(S, contact_id) == DictGet(S.contacts, contact_id)

\* update_contact, had it applied the new values before removing the index entries
update_contact_stale(S, contact_id, updates) ==
    LET contact == DictGet(S.contacts, contact_id)
    IN IF contact = None THEN S
       ELSE LET changed == update_fields(contact, updates)
                removed == remove_from_indexes(S, changed)
                stored == [removed EXCEPT !.contacts = Put(removed.contacts, contact_id, changed)]
            IN update_indexes(stored, changed)

\* update_contact, had it stored a new contact for an unknown id
update_contact_upsert(S, contact_id, updates) ==
    LET found == DictGet(S.contacts, contact_id)
        contact == IF found = None THEN Contact(<< >>, << >>, << >>, contact_id) ELSE found
        removed == IF found = None THEN S ELSE remove_from_indexes(S, contact)
        changed == update_fields(contact, updates)
        stored == [removed EXCEPT !.contacts = Put(removed.contacts, contact_id, changed)]
    IN update_indexes(stored, changed)

\* update_contact, had it not re-inserted the contact into the indexes
update_contact_unindexed(S, contact_id, updates) ==
    LET contact == DictGet(S.contacts, contact_id)
    IN IF contact = None THEN S
       ELSE LET removed == remove_from_indexes(S, contact)
                changed == update_fields(contact, updates)
            IN [removed EXCEPT !.contacts = Put(removed.contacts, contact_id, changed)]

\* MemoryStore.update_contact(contact_id, **updates): the store afterwards
update_contact(S, contact_id, updates) ==
    LET contact == DictGet(S.contacts, contact_id)
    IN IF contact = None THEN S
       ELSE LET removed == remove_from_indexes(S, contact)
                changed == update_fields(contact, updates)
                stored == [removed EXCEPT !.contacts = Put(removed.contacts, contact_id, changed)]
            IN update_indexes(stored, changed)

\* ... and what it returns
update_contact_ret(S, contact_id, updates) ==
    DictGet(update_contact(S, contact_id, updates).contacts, contact_id)

\* delete_contact, had it left the phone and email entries in place
delete_contact_keep(S, contact_id) ==
    LET contact == DictGet(S.contacts, contact_id)
    IN IF contact = None THEN S
       ELSE [S EXCEPT
                !.name_index = DiscardWords(S.name_index, Split(Lower(contact.name)), contact.id),
                !.contacts = Del(S.contacts, contact_id)]

\* MemoryStore.delete_contact(contact_id): the store afterwards
delete_contact(S, contact_id) ==
    LET contact == DictGet(S.contacts, contact_id)
    IN IF contact = None THEN S
       ELSE LET removed == remove_from_indexes(S, contact)
            IN [removed EXCEPT !.contacts = Del(removed.contacts, contact_id)]

\* delete_contact, had it returned True on every path
delete_contact_ret_true(S, contact_id) == TRUE

\* ... and what it returns
delete_contact_ret(S, contact_id) == DictGet(S.contacts, contact_id) # None

\* query.lower().strip()
query_lower(query) == Strip(Lower(query))

\* q is a prefix of s
StartsWith(q, s) == Len(q) <= Len(s) /\ SubSeq(s, 1, Len(q)) = q

\* search_contacts, had it matched keys by prefix
search_ids_prefix(S, query) ==
    LET q == query_lower(query)
        byName == UNION {S.name_index[word] :
                            word \in {w \in DOMAIN S.name_index : StartsWith(q, Lower(w))}}
        byPhone == {S.phone_index[phone] :
                            phone \in {p \in DOMAIN S.phone_index : StartsWith(q, p)}}
        byEmail == {S.email_index[email] :
                            email \in {e \in DOMAIN S.email_index : StartsWith(q, Lower(e))}}
        matching_ids == byName \cup byPhone \cup byEmail
    IN IF q = << >> THEN {}
       ELSE {contact_id \in matching_ids : contact_id \in DOMAIN S.contacts}

\* search_contacts, had it scanned the indexes for a blank query too
search_ids_unguarded(S, query) ==
    LET q == query_lower(query)
        byName == UNION {S.name_index[word] :
                            word \in {w \in DOMAIN S.name_index : Contains(q, Lower(w))}}
        byPhone == {S.phone_index[phone] :
                            phone \in {p \in DOMAIN S.phone_index : Contains(q, p)}}
        byEmail == {S.email_index[email] :
                            email \in {e \in DOMAIN S.email_index : Contains(q, Lower(e))}}
        matching_ids == byName \cup byPhone \cup byEmail
    IN {contact_id \in matching_ids : contact_id \in DOMAIN S.contacts}

\* matching_ids of MemoryStore.search_contacts, filtered by the final comprehension
search_ids(S, query) ==
    LET q == query_lower(query)
        byName == UNION {S.name_index[word] :
                            word \in {w \in DOMAIN S.name_index : Contains(q, Lower(w))}}
        byPhone == {S.phone_index[phone] :
                            phone \in {p \in DOMAIN S.phone_index : Contains(q, p)}}
        byEmail == {S.email_index[email] :
                            email \in {e \in DOMAIN S.email_index : Contains(q, Lower(e))}}
        matching_ids == byName \cup byPhone \cup byEmail
    IN IF q = << >> THEN {}
       ELSE {contact_id \in matching_ids : contact_id \in DOMAIN S.contacts}

\* the lists that hold each element of a set once (a set has no iteration order)
ListsOf(set) ==
    {l \in [1..Cardinality(set) -> set] : \A a, b \in DOMAIN l : l[a] = l[b] => a = b}

\* the lists MemoryStore.search_contacts(query) can return
search_contacts(S, query) ==
    {[k \in DOMAIN l |-> S.contacts[l[k]]] : l \in ListsOf(search_ids(S, query))}

\* the lists ContactService.search_contacts(query) can return
service_search_contacts(S, query) ==
    IF query = << >> \/ Strip(query) = << >> THEN {<< >>}
    ELSE search_contacts(S, query)

\* get_all_contacts, had it collected the contacts through the phone index
get_all_contacts_indexed(S) ==
    {[k \in DOMAIN l |-> S.contacts[l[k]]] :
        l \in ListsOf(Range(S.phone_index) \cap DOMAIN S.contacts)}

\* the lists MemoryStore.get_all_contacts() can return
get_all_contacts(S) ==
    {[k \in DOMAIN l |-> S.contacts[l[k]]] : l \in ListsOf(DOMAIN S.contacts)}

(***************************************************************************)
(* The update dicts callers send: any subset of the fields, each with a    *)
(* value of its kind ('id' is sent by a caller that copies a whole record).*)
(***************************************************************************)
\* the dicts with one field, those with a name and a phone, the empty one, and
\* two that carry an 'id' (0, an id no contact has)
UpdateArgs ==
    { [name |-> name] : name \in Names }
    \cup { [phone |-> phone] : phone \in Phones }
    \cup { [email |-> email] : email \in Emails }
    \cup { [name |-> name, phone |-> phone] : name \in Names, phone \in Phones }
    \cup { << >>, [id |-> 0], [id |-> 0, name |-> CHOOSE n \in Names : Len(n) = 5] }

NoOwner == 0
NoLocal == [op |-> "none"]
\* the sequential caller holds no result
NoOp == [op |-> "none"]

Init ==
    /\ contacts = EmptyDict
    /\ name_index = EmptyDict
    /\ phone_index = EmptyDict
    /\ email_index = EmptyDict
    /\ nextId = 1
    /\ lastOp = NoOp
    /\ created = EmptyDict
    /\ held = None
    /\ lock = NoOwner
    /\ pc = [p \in Callers |-> "idle"]
    /\ local = [p \in Callers |-> NoLocal]

(***************************************************************************)
(* Sequential use: one caller makes one call at a time; each store         *)
(* operation runs to completion and leaves its result in lastOp, which the *)
(* caller drops (Return) before its next call.                             *)
(***************************************************************************)
\* Contact(name, phone, email) then MemoryStore.create_contact
Create ==
    \E name \in Names, phone \in Phones, email \in Emails :
        LET contact == Contact(name, phone, email, nextId)
        IN /\ lastOp = NoOp
           /\ nextId <= MaxCreates
           /\ SetStore(create_contact(Store, contact))
           /\ nextId' = nextId + 1
           /\ lastOp' = [op |-> "create", id |-> contact.id,
                         args |-> [name |-> name, phone |-> phone, email |-> email],
                         ret |-> contact]
           /\ UNCHANGED concVars

\* MemoryStore.get_contact
Get ==
    \E contact_id \in AskedIds :
        /\ lastOp = NoOp
        /\ lastOp' = [op |-> "get", id |-> contact_id, ret |-> get_contact(Store, contact_id)]
        /\ UNCHANGED <<storeVars, nextId, concVars>>

\* MemoryStore.update_contact(contact_id, **updates)
UpdateOf(contact_id, updates) ==
    /\ lastOp = NoOp
    /\ SetStore(update_contact(Store, contact_id, updates))
    /\ lastOp' = [op |-> "update", id |-> contact_id, args |-> updates,
                  was |-> get_contact(Store, contact_id),
                  ret |-> update_contact_ret(Store, contact_id, updates)]
    /\ UNCHANGED <<nextId, concVars>>

Update ==
    /\ lastOp = NoOp
    /\ \E contact_id \in AskedIds, updates \in UpdateArgs : UpdateOf(contact_id, updates)

\* MemoryStore.delete_contact
Delete ==
    \E contact_id \in AskedIds :
        /\ lastOp = NoOp
        /\ SetStore(delete_contact(Store, contact_id))
        /\ lastOp' = [op |-> "delete", id |-> contact_id,
                      ret |-> delete_contact_ret(Store, contact_id)]
        /\ UNCHANGED <<nextId, concVars>>

\* MemoryStore.search_contacts
Search ==
    /\ lastOp = NoOp
    /\ \E query \in Queries :
          \E ret \in search_contacts(Store, query) :
             lastOp' = [op |-> "search", query |-> query, ret |-> ret]
    /\ UNCHANGED <<storeVars, nextId, concVars>>

\* MemoryStore.get_all_contacts
List ==
    /\ lastOp = NoOp
    /\ \E ret \in get_all_contacts(Store) :
          lastOp' = [op |-> "list", ret |-> ret]
    /\ UNCHANGED <<storeVars, nextId, concVars>>

\* the caller is done with the result of its call
Return ==
    /\ lastOp # NoOp
    /\ lastOp' = NoOp
    /\ UNCHANGED <<storeVars, nextId, concVars>>

Next ==
    \/ Create /\ UNCHANGED <<created, held>>
    \/ Get /\ UNCHANGED <<created, held>>
    \/ Update /\ UNCHANGED <<created, held>>
    \/ Delete /\ UNCHANGED <<created, held>>
    \/ Search /\ UNCHANGED <<created, held>>
    \/ List /\ UNCHANGED <<created, held>>
    \/ Return /\ UNCHANGED <<created, held>>

Spec == Init /\ [][Next]_vars

(***************************************************************************)
(* The same caller, with the history of what was passed to create.         *)
(***************************************************************************)
Track ==
    created' =
        CASE lastOp'.op = "create" -> Put(created, lastOp'.id, lastOp'.args)
          [] lastOp'.op = "update" /\ lastOp'.ret # None -> Del(created, lastOp'.id)
          [] lastOp'.op = "delete" /\ lastOp'.ret -> Del(created, lastOp'.id)
          [] OTHER -> created

NextTracked ==
    \/ Create /\ Track /\ UNCHANGED held
    \/ Get /\ Track /\ UNCHANGED held
    \/ Update /\ Track /\ UNCHANGED held
    \/ Delete /\ Track /\ UNCHANGED held
    \/ Return /\ Track /\ UNCHANGED held

SpecTracked == Init /\ [][NextTracked]_vars

(***************************************************************************)
(* The same caller, keeping a Contact it was handed.  create_contact       *)
(* stores the object it is passed and returns it (lines 29, 31),           *)
(* get_contact returns the stored object (line 35), update_contact mutates *)
(* it in place (line 48), and search and list return lists of the stored   *)
(* objects (lines 98, 103): what the caller holds is the object at its id  *)
(* in the primary map.  No contact is deleted here, so the primary map     *)
(* holds every Contact object there is; the updates are those of the       *)
(* contact the caller holds.                                               *)
(***************************************************************************)
\* the Contact objects in the result of the last call
ResultContacts ==
    CASE lastOp.op \in {"create", "get", "update"} ->
            (IF lastOp.ret = None THEN {} ELSE {lastOp.ret})
      [] lastOp.op \in {"search", "list"} -> Range(lastOp.ret)
      [] OTHER -> {}

\* the caller keeps one of the contacts of the result
Keep ==
    /\ held = None
    /\ \E contact \in ResultContacts :
          held' = [ref |-> contact.id, seen |-> contact]
    /\ lastOp' = NoOp
    /\ UNCHANGED <<storeVars, nextId, created, concVars>>

\* the caller assigns to an attribute of the contact it holds (contact.name = ...)
MutateHeld ==
    /\ held # None
    /\ lastOp = NoOp
    /\ \E field \in {"name", "phone"} :
          \E value \in (IF field = "name" THEN Names ELSE Phones) :
             /\ value # contacts[held.ref][field]
             /\ contacts' = [contacts EXCEPT ![held.ref][field] = value]
             /\ held' = [held EXCEPT !.seen[field] = value]
    /\ lastOp' = [op |-> "mutate", id |-> held.ref]
    /\ UNCHANGED <<name_index, phone_index, email_index, nextId, created, concVars>>

\* the caller lets go of the contact it holds
Drop ==
    /\ held # None
    /\ lastOp = NoOp
    /\ held' = None
    /\ UNCHANGED <<storeVars, nextId, lastOp, created, concVars>>

\* MemoryStore.update_contact on the contact the caller holds
UpdateHeld ==
    /\ held # None
    /\ \E updates \in {u \in UpdateArgs : DOMAIN u = {"name", "phone"}} :
          UpdateOf(held.ref, updates)
    /\ UNCHANGED <<created, held>>

NextAlias ==
    \/ Create /\ UNCHANGED <<created, held>>
    \/ Get /\ UNCHANGED <<created, held>>
    \/ UpdateHeld
    \/ List /\ UNCHANGED <<created, held>>
    \/ Return /\ UNCHANGED <<created, held>>
    \/ Keep
    \/ MutateHeld
    \/ Drop

SpecAlias == Init /\ [][NextAlias]_vars

(***************************************************************************)
(* services/contact_service.py: validation and the batch operations.  An   *)
(* item of a batch is a dict; a field that is missing is not in its        *)
(* DOMAIN.                                                                 *)
(***************************************************************************)
\* the least number of digits _validate_phone accepts
MinPhoneDigits == 10

\* s with every character of chars removed (the chain of str.replace calls)
Remove(s, chars) == SelectSeq(s, LAMBDA c : c \notin chars)

\* str.isdigit()
IsDigit(s) ==
    /\ s # << >>
    /\ \A k \in DOMAIN s : s[k] \in {"0", "1", "2", "3", "4", "5", "6", "7", "8", "9"}

\* s.split('@')[-1]: what follows the last '@', or all of s when it has none
RECURSIVE AfterLastAt(_)
AfterLastAt(s) ==
    IF "@" \notin Range(s) THEN s ELSE AfterLastAt(Tail(s))

\* _validate_email does not raise
validate_email(email) == "@" \in Range(email) /\ "." \in Range(AfterLastAt(email))

\* _validate_phone does not raise
validate_phone(phone) ==
    LET clean_phone == Remove(phone, {"-", " ", "(", ")"})
    IN IsDigit(clean_phone) /\ Len(clean_phone) >= MinPhoneDigits

\* _validate_contact_data does not raise
validate_contact_data(contact_data) ==
    /\ \A field \in {"name", "phone", "email"} :
          field \in DOMAIN contact_data /\ Strip(contact_data[field]) # << >>
    /\ validate_email(contact_data.email)
    /\ validate_phone(contact_data.phone)

\* _validate_update_fields does not raise
validate_update_fields(fields) ==
    /\ \A field \in DOMAIN fields :
          field \in {"name", "phone", "email"} /\ Strip(fields[field]) # << >>
    /\ "email" \in DOMAIN fields => validate_email(fields.email)
    /\ "phone" \in DOMAIN fields => validate_phone(fields.phone)

\* ContactService.create_contacts: the loop from the item at the head of the list
\* on, with the store, the next id and created_contacts as they stand; raised is
\* whether the ValueError left the method
RECURSIVE create_contacts(_, _, _, _)
create_contacts(S, id, contact_data_list, created_contacts) ==
    IF contact_data_list = << >>
    THEN [store |-> S, nextId |-> id, ret |-> created_contacts, raised |-> FALSE]
    ELSE LET contact_data == Head(contact_data_list)
         IN IF ~validate_contact_data(contact_data)
            THEN [store |-> S, nextId |-> id, ret |-> created_contacts, raised |-> TRUE]
            ELSE LET contact == Contact(contact_data.name, contact_data.phone,
                                        contact_data.email, id)
                 IN create_contacts(create_contact(S, contact), id + 1,
                                    Tail(contact_data_list),
                                    Append(created_contacts, contact.id))

\* {k: v for k, v in update_data.items() if k != 'id'}
WithoutId(update_data) == [k \in DOMAIN update_data \ {"id"} |-> update_data[k]]

\* ContactService.update_contacts: the loop from the item at the head of the list on
RECURSIVE update_contacts(_, _, _)
update_contacts(S, update_data_list, updated_contacts) ==
    IF update_data_list = << >>
    THEN [store |-> S, ret |-> updated_contacts, raised |-> FALSE]
    ELSE LET update_data == Head(update_data_list)
             failed == [store |-> S, ret |-> updated_contacts, raised |-> TRUE]
         IN IF "id" \notin DOMAIN update_data THEN failed
            ELSE IF get_contact(S, update_data.id) = None THEN failed
            ELSE LET fields == WithoutId(update_data)
                 IN IF DOMAIN fields # {} /\ ~validate_update_fields(fields) THEN failed
                    ELSE LET updated_contact == update_contact_ret(S, update_data.id, fields)
                         IN update_contacts(
                                update_contact(S, update_data.id, fields),
                                Tail(update_data_list),
                                IF updated_contact # None
                                THEN Append(updated_contacts, updated_contact.id)
                                ELSE updated_contacts)

\* ContactService.delete_contacts: the store afterwards
RECURSIVE delete_contacts(_, _)
delete_contacts(S, contact_ids) ==
    IF contact_ids = << >> THEN S
    ELSE delete_contacts(delete_contact(S, Head(contact_ids)), Tail(contact_ids))

\* ... and deleted_count
RECURSIVE deleted_count(_, _)
deleted_count(S, contact_ids) ==
    IF contact_ids = << >> THEN 0
    ELSE (IF delete_contact_ret(S, Head(contact_ids)) THEN 1 ELSE 0)
         + deleted_count(delete_contact(S, Head(contact_ids)), Tail(contact_ids))

\* longest batch a caller sends
MaxBatch == 2

\* "1234567890", "234-567-8901": two phones the service accepts
ServicePhones ==
    { <<"1", "2", "3", "4", "5", "6", "7", "8", "9", "0">>,
      <<"2", "3", "4", "-", "5", "6", "7", "-", "8", "9", "0", "1">> }

\* items of a create batch: two people with the same phone, and four the service
\* refuses (short phone, no email field, blank name, email without a dot)
CreateItems ==
    LET phone == <<"1", "2", "3", "4", "5", "6", "7", "8", "9", "0">>
    IN { [name |-> <<"A", "l", " ", "S", "m">>, phone |-> phone,
          email |-> <<"A", "@", "x", ".", "c">>],
         [name |-> <<"a", "l", " ", "S", "m", "i">>, phone |-> phone,
          email |-> <<"b", "@", "y", ".", "d">>],
         [name |-> <<"A", "l", " ", "S", "m">>, phone |-> <<"1", "2">>,
          email |-> <<"A", "@", "x", ".", "c">>],
         [name |-> <<"A", "l", " ", "S", "m">>, phone |-> phone],
         [name |-> <<" ", " ">>, phone |-> phone, email |-> <<"A", "@", "x", ".", "c">>],
         [name |-> <<"A", "l", " ", "S", "m">>, phone |-> phone,
          email |-> <<"b", ".", "@", "y">>] }

\* items of an update batch: for each id a new name, a new phone, a phone the service
\* refuses and no field at all, and an item without an id
UpdateItems ==
    { [id |-> i, name |-> <<"a", "l", " ", "S", "m", "i">>] : i \in AskedIds }
    \cup { [id |-> i, phone |-> ph] : i \in AskedIds, ph \in ServicePhones }
    \cup { [id |-> i, phone |-> <<"1", "2">>] : i \in AskedIds }
    \cup { [id |-> i] : i \in AskedIds }
    \cup { [name |-> <<"A", "l", " ", "S", "m">>] }

\* the lists of at most MaxBatch items
BatchesOf(items) == UNION {[1..n -> items] : n \in 0..MaxBatch}

\* POST /create: ContactService.create_contacts
CreateContactsOf(contact_data_list) ==
    LET done == create_contacts(Store, nextId, contact_data_list, << >>)
    IN /\ lastOp = NoOp
       /\ done.nextId - 1 <= MaxCreates
       /\ SetStore(done.store)
       /\ nextId' = done.nextId
       /\ lastOp' = [op |-> "create_contacts", ret |-> done.ret, raised |-> done.raised]
       /\ UNCHANGED <<created, held, concVars>>

CreateContacts == \E contact_data_list \in BatchesOf(CreateItems) :
                     CreateContactsOf(contact_data_list)

\* PUT /update: ContactService.update_contacts
UpdateContactsOf(update_data_list) ==
    LET done == update_contacts(Store, update_data_list, << >>)
    IN /\ lastOp = NoOp
       /\ SetStore(done.store)
       /\ lastOp' = [op |-> "update_contacts", ret |-> done.ret, raised |-> done.raised]
       /\ UNCHANGED <<nextId, created, held, concVars>>

UpdateContacts == \E update_data_list \in BatchesOf(UpdateItems) :
                     UpdateContactsOf(update_data_list)

\* DELETE /delete: ContactService.delete_contacts
DeleteContacts ==
    \E contact_ids \in BatchesOf(AskedIds) :
        /\ lastOp = NoOp
        /\ SetStore(delete_contacts(Store, contact_ids))
        /\ lastOp' = [op |-> "delete_contacts", ret |-> deleted_count(Store, contact_ids)]
        /\ UNCHANGED <<nextId, created, held, concVars>>

NextBatch ==
    \/ CreateContacts
    \/ UpdateContacts
    \/ DeleteContacts
    \/ Return /\ UNCHANGED <<created, held>>

SpecBatch == Init /\ [][NextBatch]_vars

(***************************************************************************)
(* Concurrent use: NumCallers threads share the store.  `with self._lock`  *)
(* is entered by a step that needs lock = NoOwner and left by the step     *)
(* that ends the operation.  Inside the lock a step ends before each write *)
(* to the primary map, the only state a caller can read without the lock   *)
(* (get_contact and get_all_contacts take no lock).                        *)
(***************************************************************************)
\* what the concurrent callers send: two people with different phones and emails
\* (a caller that sends the same one twice makes a collision), two updates, two queries
ConcCreates ==
    { [name |-> <<"A", "l", " ", "S", "m">>, phone |-> <<"1", "2">>,
       email |-> <<"A", "@", "x">>],
      [name |-> <<"a", "l", " ", "S", "m", "i">>, phone |-> <<"2", "3">>,
       email |-> <<"b", "@", "y">>] }

ConcUpdates ==
    { [name |-> <<"a", "l", " ", "S", "m", "i">>, phone |-> <<"2", "3">>],
      [phone |-> <<"1", "2">>] }

ConcQueries == { <<"S", "m", " ">>, << >> }

SetLocal(p, l, where) ==
    /\ local' = [local EXCEPT ![p] = l]
    /\ pc' = [pc EXCEPT ![p] = where]

\* create_contact, lines 28-29: enter the lock, insert into the primary map
StartCreate(p) ==
    \E args \in ConcCreates :
        LET contact == Contact(args.name, args.phone, args.email, nextId)
        IN /\ pc[p] = "idle"
           /\ lock = NoOwner
           /\ nextId <= MaxCreates
           /\ lock' = p
           /\ nextId' = nextId + 1
           /\ contacts' = Put(contacts, contact.id, contact)
           /\ SetLocal(p, [op |-> "create", id |-> contact.id], "create_index")
           /\ UNCHANGED <<name_index, phone_index, email_index, seqVars>>

\* create_contact, lines 30-31: index the contact, leave the lock
FinishCreate(p) ==
    /\ pc[p] = "create_index"
    /\ SetStore(update_indexes(Store, contacts[local[p].id]))
    /\ lock' = NoOwner
    /\ SetLocal(p, NoLocal, "idle")
    /\ UNCHANGED <<nextId, seqVars>>

\* update_contact, had its early return for an unknown id kept the lock
StartUpdate_hold(p) ==
    \E contact_id \in AskedIds, updates \in ConcUpdates :
        /\ pc[p] = "idle"
        /\ lock = NoOwner
        /\ lock' = p
        /\ IF contact_id \notin DOMAIN contacts
           THEN /\ SetLocal(p, [op |-> "update", id |-> contact_id, ret |-> None], "got")
                /\ UNCHANGED storeVars
           ELSE /\ SetStore(remove_from_indexes(Store, contacts[contact_id]))
                /\ SetLocal(p, [op |-> "update", id |-> contact_id,
                                was |-> contacts[contact_id], updates |-> updates],
                            "update_fields")
        /\ UNCHANGED <<nextId, seqVars>>

\* update_contact, lines 39-45: enter the lock, look the contact up, and either return
\* None or remove its index entries
StartUpdate(p) ==
    \E contact_id \in AskedIds, updates \in ConcUpdates :
        /\ pc[p] = "idle"
        /\ lock = NoOwner
        /\ IF contact_id \notin DOMAIN contacts
           THEN /\ SetLocal(p, [op |-> "update", id |-> contact_id, ret |-> None], "got")
                /\ UNCHANGED <<lock, storeVars>>
           ELSE /\ lock' = p
                /\ SetStore(remove_from_indexes(Store, contacts[contact_id]))
                /\ SetLocal(p, [op |-> "update", id |-> contact_id,
                                was |-> contacts[contact_id], updates |-> updates],
                            "update_fields")
        /\ UNCHANGED <<nextId, seqVars>>

\* Contact.update_fields, lines 38-40: one iteration of the loop over kwargs (a dict
\* iterates in the order the caller built it, so any order)
UpdateField(p) ==
    /\ pc[p] = "update_fields"
    /\ \E field \in DOMAIN local[p].updates :
          /\ contacts' = [contacts EXCEPT ![local[p].id] =
                             SetField(@, field, local[p].updates[field])]
          /\ SetLocal(p, [local[p] EXCEPT !.updates = Del(@, field)], "update_fields")
    /\ UNCHANGED <<name_index, phone_index, email_index, nextId, lock, seqVars>>

\* update_contact, lines 51-53: the loop is over; index the new values, leave the lock
FinishUpdate(p) ==
    /\ pc[p] = "update_fields"
    /\ DOMAIN local[p].updates = {}
    /\ SetStore(update_indexes(Store, contacts[local[p].id]))
    /\ lock' = NoOwner
    /\ SetLocal(p, [op |-> "update", id |-> local[p].id, ret |-> contacts[local[p].id]], "got")
    /\ UNCHANGED <<nextId, seqVars>>

\* delete_contact, lines 57-63: enter the lock, look the contact up, and either return
\* False or remove its index entries
StartDelete(p) ==
    \E contact_id \in AskedIds :
        /\ pc[p] = "idle"
        /\ lock = NoOwner
        /\ IF contact_id \notin DOMAIN contacts
           THEN /\ SetLocal(p, [op |-> "delete", id |-> contact_id, ret |-> FALSE], "got")
                /\ UNCHANGED <<lock, storeVars>>
           ELSE /\ lock' = p
                /\ SetStore(remove_from_indexes(Store, contacts[contact_id]))
                /\ SetLocal(p, [op |-> "delete", id |-> contact_id], "delete_primary")
        /\ UNCHANGED <<nextId, seqVars>>

\* delete_contact, lines 66-67: remove from the primary map, leave the lock
FinishDelete(p) ==
    /\ pc[p] = "delete_primary"
    /\ contacts' = Del(contacts, local[p].id)
    /\ lock' = NoOwner
    /\ SetLocal(p, [op |-> "delete", id |-> local[p].id, ret |-> TRUE], "got")
    /\ UNCHANGED <<name_index, phone_index, email_index, nextId, seqVars>>

\* search_contacts, lines 75-77: a blank query returns [] without the lock
SearchBlank(p) ==
    \E query \in ConcQueries :
        /\ pc[p] = "idle"
        /\ query_lower(query) = << >>
        /\ SetLocal(p, [op |-> "search", query |-> query, ret |-> << >>], "got")
        /\ UNCHANGED <<storeVars, nextId, lock, seqVars>>

\* search_contacts, lines 81-99: enter the lock and scan the three indexes
StartSearch(p) ==
    \E query \in ConcQueries :
        /\ pc[p] = "idle"
        /\ query_lower(query) # << >>
        /\ lock = NoOwner
        /\ lock' = p
        /\ \E ret \in search_contacts(Store, query) :
              SetLocal(p, [op |-> "search", query |-> query, ret |-> ret], "search_return")
        /\ UNCHANGED <<storeVars, nextId, seqVars>>

\* search_contacts: leave the lock with the list built
FinishSearch(p) ==
    /\ pc[p] = "search_return"
    /\ lock' = NoOwner
    /\ pc' = [pc EXCEPT ![p] = "got"]
    /\ UNCHANGED <<storeVars, nextId, local, seqVars>>

\* get_contact, line 35: one dict lookup, no lock.  A caller learns an id from a
\* response, so it does not ask for the id a create that has not returned generated.
ReadGet(p) ==
    \E contact_id \in AskedIds :
        /\ pc[p] = "idle"
        /\ \A w \in Callers : ~(pc[w] = "create_index" /\ local[w].id = contact_id)
        /\ SetLocal(p, [op |-> "get", id |-> contact_id,
                        ret |-> get_contact(Store, contact_id)], "got")
        /\ UNCHANGED <<storeVars, nextId, lock, seqVars>>

\* get_all_contacts, line 103: list(dict.values()), no lock
ReadList(p) ==
    /\ pc[p] = "idle"
    /\ \E ret \in get_all_contacts(Store) :
          SetLocal(p, [op |-> "list", ret |-> ret], "got")
    /\ UNCHANGED <<storeVars, nextId, lock, seqVars>>

\* the caller is done with what its call returned
Done(p) ==
    /\ pc[p] = "got"
    /\ SetLocal(p, NoLocal, "idle")
    /\ UNCHANGED <<storeVars, nextId, lock, seqVars>>

NextConc ==
    \E p \in Callers :
        \/ StartCreate(p) \/ FinishCreate(p)
        \/ StartUpdate(p) \/ UpdateField(p) \/ FinishUpdate(p)
        \/ StartDelete(p) \/ FinishDelete(p)
        \/ SearchBlank(p) \/ StartSearch(p) \/ FinishSearch(p)
        \/ ReadGet(p) \/ ReadList(p)
        \/ Done(p)

SpecConc == Init /\ [][NextConc]_vars

(***************************************************************************)
(* Fair scheduling: a thread that is inside the lock is runnable (the      *)
(* store does no I/O and waits for nothing), so its next step is           *)
(* eventually taken.  Nothing obliges a caller to start a call.            *)
(***************************************************************************)
\* the next step of the caller that is inside the lock (there is at most one)
StepInside ==
    \E p \in Callers :
        \/ FinishCreate(p)
        \/ UpdateField(p) \/ FinishUpdate(p)
        \/ FinishDelete(p)
        \/ FinishSearch(p)

Fairness == WF_vars(StepInside)

\* number of contacts created where progress is checked
LiveCreates == 1

\* the callers of NextConc, creating LiveCreates contacts at most
NextLive ==
    \E p \in Callers :
        \/ StartCreate(p) /\ nextId <= LiveCreates
        \/ FinishCreate(p)
        \/ StartUpdate(p) \/ UpdateField(p) \/ FinishUpdate(p)
        \/ StartDelete(p) \/ FinishDelete(p)
        \/ SearchBlank(p) \/ StartSearch(p) \/ FinishSearch(p)
        \/ ReadGet(p) \/ ReadList(p)
        \/ Done(p)

SpecLive == Init /\ [][NextLive]_vars /\ Fairness

(***************************************************************************)
(* ContactService.update_contacts among concurrent callers.  The service   *)
(* holds no lock of its own: its get_contact (line 70) is one lock-free    *)
(* lookup, and the store's update_contact (line 82) takes the lock later,  *)
(* so another caller's create or delete can run between the two.           *)
(***************************************************************************)
\* the update batches callers send: per item an id and a phone the service accepts
ConcBatches ==
    BatchesOf({ [id |-> i, phone |-> <<"2", "3", "4", "-", "5", "6", "7", "-", "8", "9", "0", "1">>] :
                    i \in AskedIds }) \ {<< >>}

\* update_contacts, line 60: the call starts with an empty updated_contacts
SvcBegin(p) ==
    \E update_data_list \in ConcBatches :
        /\ pc[p] = "idle"
        /\ SetLocal(p, [op |-> "update_contacts", asked |-> update_data_list,
                        items |-> update_data_list, updated |-> << >>], "svc_check")
        /\ UNCHANGED <<storeVars, nextId, lock, seqVars>>

\* update_contacts, lines 62-79 and 86: the loop is over and the list is returned, or
\* the next item is checked (its id, the lock-free get_contact, its fields)
SvcCheck(p) ==
    /\ pc[p] = "svc_check"
    /\ IF local[p].items = << >>
       THEN SetLocal(p, [op |-> "update_contacts", asked |-> local[p].asked,
                         ret |-> local[p].updated, raised |-> FALSE], "got")
       ELSE LET update_data == Head(local[p].items)
                fields == WithoutId(update_data)
            IN IF \/ "id" \notin DOMAIN update_data
                  \/ get_contact(Store, update_data.id) = None
                  \/ DOMAIN fields # {} /\ ~validate_update_fields(fields)
               THEN SetLocal(p, [op |-> "update_contacts", asked |-> local[p].asked,
                                 ret |-> local[p].updated, raised |-> TRUE], "got")
               ELSE SetLocal(p, local[p], "svc_update")
    /\ UNCHANGED <<storeVars, nextId, lock, seqVars>>

\* update_contacts, lines 82-84, into update_contact, lines 39-45: enter the lock and
\* look the contact up; None is returned for an id that is gone, and the service goes
\* on to the next item without appending
SvcStartUpdate(p) ==
    /\ pc[p] = "svc_update"
    /\ lock = NoOwner
    /\ LET update_data == Head(local[p].items)
       IN IF update_data.id \notin DOMAIN contacts
          THEN /\ SetLocal(p, [local[p] EXCEPT !.items = Tail(@)], "svc_check")
               /\ UNCHANGED <<lock, storeVars>>
          ELSE /\ lock' = p
               /\ SetStore(remove_from_indexes(Store, contacts[update_data.id]))
               /\ SetLocal(p, [op |-> "update_contacts", asked |-> local[p].asked,
                               items |-> local[p].items, updated |-> local[p].updated,
                               id |-> update_data.id, updates |-> WithoutId(update_data)],
                           "svc_fields")
    /\ UNCHANGED <<nextId, seqVars>>

\* Contact.update_fields, lines 38-40, called at update_contact line 48
SvcUpdateField(p) ==
    /\ pc[p] = "svc_fields"
    /\ \E field \in DOMAIN local[p].updates :
          /\ contacts' = [contacts EXCEPT ![local[p].id] =
                             SetField(@, field, local[p].updates[field])]
          /\ SetLocal(p, [local[p] EXCEPT !.updates = Del(@, field)], "svc_fields")
    /\ UNCHANGED <<name_index, phone_index, email_index, nextId, lock, seqVars>>

\* update_contact, lines 51-53, then update_contacts, lines 83-84: index the new
\* values, leave the lock, append the contact returned
SvcFinishUpdate(p) ==
    /\ pc[p] = "svc_fields"
    /\ DOMAIN local[p].updates = {}
    /\ SetStore(update_indexes(Store, contacts[local[p].id]))
    /\ lock' = NoOwner
    /\ SetLocal(p, [op |-> "update_contacts", asked |-> local[p].asked,
                    items |-> Tail(local[p].items),
                    updated |-> Append(local[p].updated, local[p].id)], "svc_check")
    /\ UNCHANGED <<nextId, seqVars>>

NextSvc ==
    \E p \in Callers :
        \/ StartCreate(p) \/ FinishCreate(p)
        \/ StartDelete(p) \/ FinishDelete(p)
        \/ SvcBegin(p) \/ SvcCheck(p)
        \/ SvcStartUpdate(p) \/ SvcUpdateField(p) \/ SvcFinishUpdate(p)
        \/ Done(p)

SpecSvc == Init /\ [][NextSvc]_vars

(***************************************************************************)
(* Vocabulary of the properties.                                           *)
(***************************************************************************)
\* the store in the next state
StoreNext ==
    [contacts |-> contacts', name_index |-> name_index',
     phone_index |-> phone_index', email_index |-> email_index']

\* the lowercased name tokens of a contact
NameTokens(contact) == Range(Split(Lower(contact.name)))

Substrings(s) == {SubSeq(s, a, b) : a \in 1..Len(s), b \in 1..Len(s)} \ {<< >>}

\* queries to probe the store with: the callers' queries and every piece of every
\* token, phone and lowercased email a contact can have
ProbeQueries ==
    Queries
    \cup UNION {Substrings(w) : w \in UNION {Range(Split(Lower(n))) : n \in Names}}
    \cup UNION {Substrings(ph) : ph \in Phones}
    \cup UNION {Substrings(Lower(e)) : e \in Emails}

\* every id held in an index entry is a key of the primary map
NoDanglingId ==
    /\ \A w \in DOMAIN name_index : name_index[w] \subseteq DOMAIN contacts
    /\ \A ph \in DOMAIN phone_index : phone_index[ph] \in DOMAIN contacts
    /\ \A e \in DOMAIN email_index : email_index[e] \in DOMAIN contacts

\* contact i is reachable through each of its tokens, its phone and its lowercased email
Reachable(i) ==
    LET c == contacts[i]
    IN /\ \A w \in NameTokens(c) : w \in DOMAIN name_index /\ i \in name_index[w]
       /\ c.phone \in DOMAIN phone_index /\ phone_index[c.phone] = i
       /\ Lower(c.email) \in DOMAIN email_index /\ email_index[Lower(c.email)] = i

\* two stored contacts share a phone string or a lowercased email
Collision ==
    \E i, j \in DOMAIN contacts :
        /\ i # j
        /\ \/ contacts[i].phone = contacts[j].phone
           \/ Lower(contacts[i].email) = Lower(contacts[j].email)

\* the ids of a returned list of contacts
IdsOf(list) == {list[k].id : k \in DOMAIN list}

\* the reference linear scan over the primary map for an already lowercased, trimmed q
ScanMatch(c, q) ==
    \/ \E w \in NameTokens(c) : Contains(q, w)
    \/ Contains(q, c.phone)
    \/ Contains(q, Lower(c.email))

(***************************************************************************)
(* C1.  Index invariant (stated as the claim has it, collisions included): *)
(* after every operation no index entry holds an id that is not a key of   *)
(* the primary map, and every stored contact is reachable through each of  *)
(* its lowercased name tokens, its exact phone and its lowercased email.   *)
(* The code breaks the second half as soon as two contacts share a phone   *)
(* or a lowercased email.                                                  *)
(***************************************************************************)
C1_IndexInvariant ==
    /\ NoDanglingId
    /\ \A i \in DOMAIN contacts : Reachable(i)

\* no caller is inside a store operation
Quiescent == lock = NoOwner /\ \A p \in Callers : pc[p] \in {"idle", "got"}

(***************************************************************************)
(* C2.  Under any interleaving of create, update and delete by concurrent  *)
(* callers, the index invariant of C1 holds in every state in which no     *)
(* caller is inside an operation.  The lock does serialise the three       *)
(* writers; the invariant fails for the reason it fails sequentially (C1). *)
(***************************************************************************)
C2_QuiescentIndexInvariant ==
    Quiescent => (NoDanglingId /\ \A i \in DOMAIN contacts : Reachable(i))

\* caller w is inside a create, update or delete of contact i: the contact is in the
\* primary map without its index entries, or with part of an update applied
InsideWriteOn(w, i) ==
    /\ pc[w] \in {"create_index", "update_fields", "delete_primary"}
    /\ local[w].id = i

\* the ids of the contacts a get, search or list call of caller p has just read
SeenBy(p) ==
    IF local'[p].op = "get"
    THEN (IF local'[p].ret = None THEN {} ELSE {local'[p].ret.id})
    ELSE IdsOf(local'[p].ret)

(***************************************************************************)
(* C3.  Every store operation holds the lock for its whole duration, so no *)
(* get, search or list reads a contact that another caller's create,       *)
(* update or delete is in the middle of changing.  get and list take no    *)
(* lock in the code and do read such contacts.                             *)
(***************************************************************************)
C3_AtomicOperations ==
    [][ \A p \in Callers :
          (/\ pc[p] = "idle"
           /\ pc'[p] \in {"got", "search_return"}
           /\ local'[p].op \in {"get", "search", "list"})
          => \A i \in SeenBy(p), w \in Callers \ {p} : ~InsideWriteOn(w, i) ]_vars

(***************************************************************************)
(* C4.  Update ordering: a successful update that changes the name leaves  *)
(* the contact out of every search whose query lies inside an old token    *)
(* but inside no new token, nor the phone, nor the lowercased email, and   *)
(* in every search whose query lies inside a new token.                    *)
(***************************************************************************)
C4_UpdateOrdering ==
    [][ (/\ lastOp'.op = "update"
         /\ lastOp'.ret # None
         /\ lastOp'.was.name # lastOp'.ret.name)
        => LET i == lastOp'.id
               old == lastOp'.was
               new == contacts'[i]
           IN \A q \in ProbeQueries \ {<< >>, <<" ", " ">>} :
                LET ql == query_lower(q)
                    inOld == \E w \in NameTokens(old) : Contains(ql, w)
                    inNew == \E w \in NameTokens(new) : Contains(ql, w)
                IN /\ (inOld /\ ~ScanMatch(new, ql)) => i \notin search_ids(StoreNext, q)
                   /\ inNew => i \in search_ids(StoreNext, q) ]_vars

\* C4 witness: "al Smi" was renamed "Al Sm"; "smi" no longer finds the contact, "sm" does
C4_Witness ==
    /\ lastOp.op = "update"
    /\ lastOp.ret # None
    /\ lastOp.was.name = <<"a", "l", " ", "S", "m", "i">>
    /\ lastOp.ret.name = <<"A", "l", " ", "S", "m">>
    /\ lastOp.id \notin search_ids(Store, <<"s", "m", "i">>)
    /\ lastOp.id \in search_ids(Store, <<"S", "m", " ">>)
    /\ Cardinality(DOMAIN contacts) = 2

(***************************************************************************)
(* C5.  Search agrees with a linear scan of the primary map: for a         *)
(* non-blank query, search returns exactly the stored contacts with the    *)
(* lowercased trimmed query inside a name token, the phone or the          *)
(* lowercased email.  The code loses a contact whose phone or email entry  *)
(* was overwritten or deleted by a colliding contact (see C1).             *)
(***************************************************************************)
C5_SearchIsScan ==
    (lastOp.op = "search" /\ query_lower(lastOp.query) # << >>)
    => /\ IdsOf(lastOp.ret) =
            {i \in DOMAIN contacts : ScanMatch(contacts[i], query_lower(lastOp.query))}
       /\ \A k \in DOMAIN lastOp.ret : lastOp.ret[k] = contacts[lastOp.ret[k].id]

(***************************************************************************)
(* C6.  For a non-blank query the ids search returns are exactly the ids   *)
(* under the index keys that contain the lowercased query (containment),   *)
(* over the three indexes, that are keys of the primary map; each such     *)
(* contact appears once.                                                   *)
(***************************************************************************)
C6_SearchIsIndexUnion ==
    (lastOp.op = "search" /\ query_lower(lastOp.query) # << >>)
    => LET ql == query_lower(lastOp.query)
           ret == lastOp.ret
       IN /\ \A i \in Ids \cup IdsOf(ret) :
                i \in IdsOf(ret) <=>
                    /\ i \in DOMAIN contacts
                    /\ \/ \E w \in DOMAIN name_index : Contains(ql, w) /\ i \in name_index[w]
                       \/ \E ph \in DOMAIN phone_index : Contains(ql, ph) /\ phone_index[ph] = i
                       \/ \E e \in DOMAIN email_index : Contains(ql, e) /\ email_index[e] = i
          /\ \A a, b \in DOMAIN ret : ret[a].id = ret[b].id => a = b
          /\ \A k \in DOMAIN ret : ret[k] = contacts[ret[k].id]

\* C6 witness: search("A") returned two contacts, the first of them matching through a
\* name token ("al") and through an email key ("a@x")
C6_Witness ==
    /\ lastOp.op = "search"
    /\ lastOp.query = <<"A">>
    /\ Len(lastOp.ret) = 2
    /\ \E i \in DOMAIN contacts :
          /\ <<"a", "l">> \in DOMAIN name_index /\ i \in name_index[<<"a", "l">>]
          /\ <<"a", "@", "x">> \in DOMAIN email_index /\ email_index[<<"a", "@", "x">>] = i

\* no index entry of store S holds id i
Unindexed(S, i) ==
    /\ \A w \in DOMAIN S.name_index : i \notin S.name_index[w]
    /\ \A ph \in DOMAIN S.phone_index : S.phone_index[ph] # i
    /\ \A e \in DOMAIN S.email_index : S.email_index[e] # i

(***************************************************************************)
(* C7.  Delete of a stored contact returns true and removes the contact    *)
(* from the primary map and from the three indexes; from then on get(id)   *)
(* reports not-found and no search returns a contact with that id.         *)
(***************************************************************************)
C7_DeleteStored ==
    /\ [][ (lastOp'.op = "delete" /\ lastOp'.id \in DOMAIN contacts)
           => /\ lastOp'.ret = TRUE
              /\ lastOp'.id \notin DOMAIN contacts'
              /\ Unindexed(StoreNext, lastOp'.id) ]_vars
    /\ [](\A i \in 1..(nextId - 1) :
             i \notin DOMAIN contacts
             => /\ get_contact(Store, i) = None
                /\ Unindexed(Store, i)
                /\ \A q \in ProbeQueries : i \notin search_ids(Store, q))

\* C7 witness: a stored contact has just been deleted and another one remains
C7_Witness ==
    /\ lastOp.op = "delete"
    /\ lastOp.ret = TRUE
    /\ lastOp.id \notin DOMAIN contacts
    /\ Cardinality(DOMAIN contacts) = 1

(***************************************************************************)
(* C8.  Idempotent delete: delete of an id that is not in the primary map  *)
(* returns false and changes neither the primary map nor an index; after   *)
(* a successful delete, deleting the same id again does just that.         *)
(***************************************************************************)
C8_DeleteAbsent ==
    [][ /\ (lastOp'.op = "delete" /\ lastOp'.id \notin DOMAIN contacts)
           => /\ lastOp'.ret = FALSE
              /\ UNCHANGED storeVars
        /\ (lastOp'.op = "delete" /\ lastOp'.id \in DOMAIN contacts)
           => /\ delete_contact_ret(StoreNext, lastOp'.id) = FALSE
              /\ delete_contact(StoreNext, lastOp'.id) = StoreNext ]_vars

\* C8 witness: delete has just returned false for an id that was deleted before, with a
\* contact still stored
C8_Witness ==
    /\ lastOp.op = "delete"
    /\ lastOp.ret = FALSE
    /\ lastOp.id \in 1..(nextId - 1)
    /\ contacts # EmptyDict

(***************************************************************************)
(* C9.  Update of an id that is not in the primary map returns None and    *)
(* changes neither the primary map nor an index.                           *)
(***************************************************************************)
C9_UpdateAbsent ==
    [][ (lastOp'.op = "update" /\ lastOp'.id \notin DOMAIN contacts)
        => /\ lastOp'.ret = None
           /\ UNCHANGED storeVars ]_vars

\* C9 witness: update has just returned None while a contact is stored
C9_Witness ==
    /\ lastOp.op = "update"
    /\ lastOp.ret = None
    /\ contacts # EmptyDict

(***************************************************************************)
(* C10.  Round trip: get of an id that was created and neither updated nor *)
(* deleted since returns a contact with exactly the name, phone and email  *)
(* passed to create (letter case kept) and with the id assigned at         *)
(* creation.                                                               *)
(***************************************************************************)
C10_RoundTrip ==
    (lastOp.op = "get" /\ lastOp.id \in DOMAIN created)
    => /\ lastOp.ret # None
       /\ lastOp.ret.name = created[lastOp.id].name
       /\ lastOp.ret.phone = created[lastOp.id].phone
       /\ lastOp.ret.email = created[lastOp.id].email
       /\ lastOp.ret.id = lastOp.id

\* C10 witness: get returned the first contact, created with capitals in its name and
\* email, after a second contact with the same phone and email was created
C10_Witness ==
    /\ lastOp.op = "get"
    /\ lastOp.id = 1
    /\ DOMAIN created = {1, 2}
    /\ lastOp.ret.name = <<"A", "l", " ", "S", "m">>
    /\ lastOp.ret.email = <<"A", "@", "x">>
    /\ contacts[2].phone = contacts[1].phone
    /\ contacts[2].email = contacts[1].email

\* a str that is empty or holds only whitespace
Blank(s) == \A k \in DOMAIN s : IsSpace(s[k])

(***************************************************************************)
(* C11.  Empty-query guard: a search with an empty query or one made only  *)
(* of whitespace returns the empty list in every store state, whatever     *)
(* contacts exist, through the store and through the service, and leaves   *)
(* the primary map and the three indexes as they were.                     *)
(***************************************************************************)
C11_EmptyQueryGuard ==
    [][ (lastOp'.op = "search" /\ Blank(lastOp'.query))
        => /\ lastOp'.ret = << >>
           /\ service_search_contacts(Store, lastOp'.query) = {<< >>}
           /\ UNCHANGED storeVars ]_vars

\* C11 witness: search("  ") returned nothing with two contacts stored and indexed
C11_Witness ==
    /\ lastOp.op = "search"
    /\ lastOp.query = <<" ", " ">>
    /\ lastOp.ret = << >>
    /\ Cardinality(DOMAIN contacts) = 2
    /\ phone_index # EmptyDict

\* every index entry of store S holds only ids of stored contacts that have the entry's
\* key as a lowercased name token, as their phone, as their lowercased email
EntriesCurrent(S) ==
    /\ \A w \in DOMAIN S.name_index :
          \A i \in S.name_index[w] :
             i \in DOMAIN S.contacts /\ w \in NameTokens(S.contacts[i])
    /\ \A ph \in DOMAIN S.phone_index :
          LET i == S.phone_index[ph]
          IN i \in DOMAIN S.contacts /\ S.contacts[i].phone = ph
    /\ \A e \in DOMAIN S.email_index :
          LET i == S.email_index[e]
          IN i \in DOMAIN S.contacts /\ Lower(S.contacts[i].email) = e

(***************************************************************************)
(* C12.  No aliasing of internal state: a caller that assigns to a field   *)
(* of a contact it passed to create or was handed by create, get, update,  *)
(* search or list changes neither the primary map nor the agreement of the *)
(* indexes with it, and a contact handed to a caller keeps the fields it   *)
(* had then, whatever update is applied to the stored contact later.  The  *)
(* code hands out the stored objects themselves.                           *)
(***************************************************************************)
C12_NoAliasing ==
    /\ [][ lastOp'.op = "mutate"
           => /\ contacts' = contacts
              /\ EntriesCurrent(Store) => EntriesCurrent(StoreNext) ]_vars
    /\ [](held # None => contacts[held.ref] = held.seen)

(***************************************************************************)
(* C13.  A successful update changes only the fields supplied: the         *)
(* contact's id and each of name, phone, email that the call does not name *)
(* keep their values, each named one takes the value supplied, an 'id'     *)
(* among the supplied fields is ignored, the contact stays under the same  *)
(* key of the primary map, and every other contact of the primary map is   *)
(* unchanged.                                                              *)
(***************************************************************************)
C13_UpdateFrame ==
    [][ (lastOp'.op = "update" /\ lastOp'.id \in DOMAIN contacts)
        => LET contact_id == lastOp'.id
               updates == lastOp'.args
           IN /\ DOMAIN contacts' = DOMAIN contacts
              /\ contacts'[contact_id].id = contact_id
              /\ contacts[contact_id].id = contact_id
              /\ \A field \in {"name", "phone", "email"} :
                    contacts'[contact_id][field] =
                        IF field \in DOMAIN updates THEN updates[field]
                        ELSE contacts[contact_id][field]
              /\ \A other \in DOMAIN contacts \ {contact_id} :
                    contacts'[other] = contacts[other]
              /\ lastOp'.ret = contacts'[contact_id] ]_vars

\* C13 witness: an update has changed the name and the phone of one of two stored
\* contacts and left its email, and the other contact has kept another name and phone
C13_Witness ==
    /\ lastOp.op = "update"
    /\ lastOp.ret # None
    /\ DOMAIN lastOp.args = {"name", "phone"}
    /\ lastOp.ret.name # lastOp.was.name
    /\ lastOp.ret.phone # lastOp.was.phone
    /\ lastOp.ret.email = lastOp.was.email
    /\ \E other \in DOMAIN contacts \ {lastOp.id} :
          /\ contacts[other].name # lastOp.ret.name
          /\ contacts[other].phone # lastOp.ret.phone

(***************************************************************************)
(* C14.  Create always adds a new record: the id it assigns is not a key   *)
(* of the primary map, the primary map gains exactly that key, no stored   *)
(* contact is replaced or changed, and when create returns each lowercased *)
(* name token of the new contact, its phone and its lowercased email are   *)
(* in their index with the new id.                                         *)
(***************************************************************************)
C14_CreateAddsRecord ==
    [][ lastOp'.op = "create"
        => LET new == lastOp'.ret
           IN /\ new.id \notin DOMAIN contacts
              /\ DOMAIN contacts' = DOMAIN contacts \cup {new.id}
              /\ Cardinality(DOMAIN contacts') = Cardinality(DOMAIN contacts) + 1
              /\ \A i \in DOMAIN contacts : contacts'[i] = contacts[i]
              /\ contacts'[new.id] =
                    Contact(lastOp'.args.name, lastOp'.args.phone, lastOp'.args.email, new.id)
              /\ \A w \in Range(Split(Lower(lastOp'.args.name))) :
                    w \in DOMAIN name_index' /\ new.id \in name_index'[w]
              /\ lastOp'.args.phone \in DOMAIN phone_index'
              /\ phone_index'[lastOp'.args.phone] = new.id
              /\ Lower(lastOp'.args.email) \in DOMAIN email_index'
              /\ email_index'[Lower(lastOp'.args.email)] = new.id ]_vars

\* C14 witness: a second contact has just been created with an email that has a capital,
\* next to a first one with another phone and email
C14_Witness ==
    /\ lastOp.op = "create"
    /\ lastOp.id = 2
    /\ lastOp.args.email = <<"A", "@", "x">>
    /\ 1 \in DOMAIN contacts
    /\ contacts[1].phone # contacts[2].phone
    /\ contacts[1].email # contacts[2].email
    /\ Cardinality(DOMAIN name_index) = 3

(***************************************************************************)
(* C15.  Duplicates are allowed and collide only in the index: creating a  *)
(* contact whose phone (lowercased email) equals that of a stored contact  *)
(* succeeds, both contacts are in the primary map as separate records with *)
(* distinct ids, and the phone (email) index entry of that string holds    *)
(* the id of the contact indexed last, the new one.                        *)
(***************************************************************************)
C15_DuplicatesCollideInIndex ==
    [][ lastOp'.op = "create"
        => \A old \in DOMAIN contacts :
             LET new == lastOp'.ret
             IN /\ contacts[old].phone = lastOp'.args.phone
                   => /\ new # None
                      /\ old # new.id
                      /\ {old, new.id} \subseteq DOMAIN contacts'
                      /\ contacts'[old] = contacts[old]
                      /\ contacts'[new.id].phone = contacts'[old].phone
                      /\ phone_index'[lastOp'.args.phone] = new.id
                /\ Lower(contacts[old].email) = Lower(lastOp'.args.email)
                   => /\ new # None
                      /\ old # new.id
                      /\ {old, new.id} \subseteq DOMAIN contacts'
                      /\ contacts'[old] = contacts[old]
                      /\ Lower(contacts'[new.id].email) = Lower(contacts'[old].email)
                      /\ email_index'[Lower(lastOp'.args.email)] = new.id ]_vars

\* C15 witness: the second contact was created with the phone and the email of the
\* first; both are stored and the two index entries hold the second id
C15_Witness ==
    /\ lastOp.op = "create"
    /\ lastOp.id = 2
    /\ DOMAIN contacts = {1, 2}
    /\ contacts[1].phone = contacts[2].phone
    /\ contacts[1].email = <<"A", "@", "x">>
    /\ contacts[2].email = <<"A", "@", "x">>
    /\ phone_index[contacts[1].phone] = 2
    /\ email_index[<<"a", "@", "x">>] = 2

(***************************************************************************)
(* C16.  list returns exactly the contents of the primary map: the keys of *)
(* the primary map are at every moment the ids created and not deleted     *)
(* since (a create adds its id, a successful delete removes its id, no     *)
(* other call changes the key set), and list returns each contact of the   *)
(* primary map exactly once, with the fields it has now, and nothing else. *)
(***************************************************************************)
C16_ListIsPrimaryMap ==
    /\ [][ DOMAIN contacts' =
             CASE lastOp'.op = "create" -> DOMAIN contacts \cup {lastOp'.id}
               [] lastOp'.op = "delete" -> DOMAIN contacts \ {lastOp'.id}
               [] OTHER -> DOMAIN contacts ]_vars
    /\ [](lastOp.op = "list"
          => /\ IdsOf(lastOp.ret) = DOMAIN contacts
             /\ Len(lastOp.ret) = Cardinality(DOMAIN contacts)
             /\ \A k \in DOMAIN lastOp.ret : lastOp.ret[k] = contacts[lastOp.ret[k].id])

\* C16 witness: list returned the two stored contacts, which share a phone
C16_Witness ==
    /\ lastOp.op = "list"
    /\ Len(lastOp.ret) = 2
    /\ lastOp.ret[1].phone = lastOp.ret[2].phone
    /\ lastOp.ret[1].id # lastOp.ret[2].id

(***************************************************************************)
(* C20.  No dangling index entries: in every state a sequential series of  *)
(* creates (fresh ids), updates and deletes reaches, phone and email       *)
(* collisions included, every id in the phone index, the email index or a  *)
(* set of the name index is a key of the primary map, and the contact      *)
(* stored under it has that phone, that lowercased email, that lowercased  *)
(* name token.                                                             *)
(***************************************************************************)
C20_NoDanglingEntries == NoDanglingId /\ EntriesCurrent(Store)

\* C20 witness: of two contacts that shared a phone and an email one was deleted; the
\* other is stored without a phone or email entry and is still under its name tokens
C20_Witness ==
    /\ lastOp.op = "delete"
    /\ lastOp.ret = TRUE
    /\ Cardinality(DOMAIN contacts) = 1
    /\ phone_index = EmptyDict
    /\ email_index = EmptyDict
    /\ name_index # EmptyDict

\* the index invariant of C1, of a store S
IndexInvariantOf(S) ==
    /\ EntriesCurrent(S)
    /\ \A i \in DOMAIN S.contacts :
          LET c == S.contacts[i]
          IN /\ \A w \in NameTokens(c) : w \in DOMAIN S.name_index /\ i \in S.name_index[w]
             /\ c.phone \in DOMAIN S.phone_index /\ S.phone_index[c.phone] = i
             /\ Lower(c.email) \in DOMAIN S.email_index /\ S.email_index[Lower(c.email)] = i

\* the store after each item of a list of valid create items is issued alone, in order
RECURSIVE EachCreateAlone(_, _, _)
EachCreateAlone(S, id, items) ==
    IF items = << >> THEN S
    ELSE EachCreateAlone(
             create_contact(S, Contact(Head(items).name, Head(items).phone,
                                       Head(items).email, id)),
             id + 1, Tail(items))

\* the store after each item of a list of update items is issued alone, in order
RECURSIVE EachUpdateAlone(_, _)
EachUpdateAlone(S, items) ==
    IF items = << >> THEN S
    ELSE EachUpdateAlone(update_contact(S, Head(items).id, WithoutId(Head(items))),
                         Tail(items))

\* an update item the service refuses in store S: no id, an id that is not stored, or
\* a field that does not validate
UpdateItemFails(S, item) ==
    \/ "id" \notin DOMAIN item
    \/ item.id \notin DOMAIN S.contacts
    \/ WithoutId(item) # << >> /\ ~validate_update_fields(WithoutId(item))

\* the position of the first item of a batch that satisfies Fails
FirstFailing(batch, Fails(_)) ==
    CHOOSE k \in DOMAIN batch :
        Fails(batch[k]) /\ \A j \in 1..(k - 1) : ~Fails(batch[j])

(***************************************************************************)
(* C18.  Per-item atomicity of batches: when item k of a create_contacts   *)
(* or update_contacts batch fails (validation or not-found), the store is  *)
(* left as if items 1..k-1 had each been issued alone, item k and the      *)
(* later items have no effect, and the index invariant (C1) holds for the  *)
(* store that results.  The items before k are applied and kept, but they  *)
(* leave the index invariant broken whenever two contacts share a phone or *)
(* an email.                                                               *)
(***************************************************************************)
C18_BatchPerItem ==
    [][ /\ \A batch \in BatchesOf(CreateItems) :
             (lastOp'.op = "create_contacts" /\ lastOp'.raised /\ CreateContactsOf(batch))
             => LET k == FirstFailing(batch, LAMBDA item : ~validate_contact_data(item))
                IN /\ StoreNext = EachCreateAlone(Store, nextId, SubSeq(batch, 1, k - 1))
                   /\ Len(lastOp'.ret) = k - 1
                   /\ IndexInvariantOf(StoreNext)
        /\ \A batch \in BatchesOf(UpdateItems) :
             (lastOp'.op = "update_contacts" /\ lastOp'.raised /\ UpdateContactsOf(batch))
             => LET k == FirstFailing(batch, LAMBDA item : UpdateItemFails(Store, item))
                IN /\ StoreNext = EachUpdateAlone(Store, SubSeq(batch, 1, k - 1))
                   /\ Len(lastOp'.ret) = k - 1
                   /\ IndexInvariantOf(StoreNext) ]_vars

(***************************************************************************)
(* C17.  An update addressed to an id that is not in the store is always   *)
(* surfaced as the not-found error and never dropped: when a call of       *)
(* update_contacts returns its list without raising, every item of the     *)
(* batch was applied and its contact is in the list, in order, under every *)
(* interleaving with other callers' deletes.  The code drops the item when *)
(* the delete lands between its existence check and the store's update.    *)
(***************************************************************************)
C17_UpdateNeverDropped ==
    \A p \in Callers :
        (pc[p] = "got" /\ local[p].op = "update_contacts" /\ ~local[p].raised)
        => local[p].ret = [k \in DOMAIN local[p].asked |-> local[p].asked[k].id]

\* caller p is inside a store operation
Inside(p) == pc[p] \in {"create_index", "update_fields", "delete_primary", "search_return"}

NextDistinct ==
    \/ Create /\ ~Collision' /\ UNCHANGED <<created, held>>
    \/ Get /\ UNCHANGED <<created, held>>
    \/ Update /\ ~Collision' /\ UNCHANGED <<created, held>>
    \/ Delete /\ UNCHANGED <<created, held>>
    \/ Search /\ UNCHANGED <<created, held>>
    \/ List /\ UNCHANGED <<created, held>>
    \/ Return /\ UNCHANGED <<created, held>>

SpecDistinct == Init /\ [][NextDistinct]_vars

(***************************************************************************)
(* C21.  Collision-free completeness: in every execution in which no two   *)
(* contacts that are in the primary map at the same time ever share a      *)
(* phone or a lowercased email, after every create, update and delete each *)
(* contact of the primary map is the value of the phone index at its       *)
(* phone, the value of the email index at its lowercased email, and a      *)
(* member of the name-index set of each of its lowercased name tokens.     *)
(***************************************************************************)
C21_CollisionFreeComplete ==
    ~Collision => \A i \in DOMAIN contacts : Reachable(i)

\* C21 witness: an update has just renamed one of two stored contacts, which have
\* different phones and different lowercased emails
C21_Witness ==
    /\ lastOp.op = "update"
    /\ lastOp.ret # None
    /\ lastOp.ret.name # lastOp.was.name
    /\ Cardinality(DOMAIN contacts) = 2
    /\ ~Collision

(***************************************************************************)
(* C22.  Shared name tokens are isolated per contact: when a stored        *)
(* contact is deleted, or its name is updated so that it no longer has a   *)
(* token, and other stored contacts have that token, the step removes      *)
(* only that contact's id from the token's set; every other contact with   *)
(* the token remains in the set and is still found by a search for it.     *)
(***************************************************************************)
C22_SharedTokenIsolated ==
    [][ LET contact_id == lastOp'.id
            old_tokens == NameTokens(contacts[contact_id])
            dropped ==
                IF lastOp'.op = "delete" THEN old_tokens
                ELSE old_tokens \ NameTokens(contacts'[contact_id])
        IN (lastOp'.op \in {"delete", "update"} /\ contact_id \in DOMAIN contacts)
           => \A word \in dropped :
                LET others == {j \in DOMAIN contacts \ {contact_id} :
                                  word \in NameTokens(contacts[j])}
                IN others # {}
                   => /\ word \in DOMAIN name_index'
                      /\ name_index'[word] = name_index[word] \ {contact_id}
                      /\ others \subseteq name_index'[word]
                      /\ others \subseteq search_ids(StoreNext, word) ]_vars

\* C22 witness: an update has just taken a token out of a contact's name while
\* another stored contact has that token
C22_Witness ==
    /\ lastOp.op = "update"
    /\ lastOp.ret # None
    /\ \E word \in NameTokens(lastOp.was) \ NameTokens(lastOp.ret) :
          \E j \in DOMAIN contacts \ {lastOp.id} :
             /\ word \in NameTokens(contacts[j])
             /\ j \in name_index[word]

(***************************************************************************)
(* C23.  Update is idempotent on the whole store state: for every stored   *)
(* id and every set of field values, the store reached by an update is     *)
(* left unchanged, in the primary map and in all three indexes, by the     *)
(* same update applied again, also when other contacts share the           *)
(* contact's phone or lowercased email.                                    *)
(***************************************************************************)
C23_UpdateIdempotent ==
    [][ (lastOp'.op = "update" /\ lastOp'.id \in DOMAIN contacts)
        => LET once == StoreNext
               twice == update_contact(once, lastOp'.id, lastOp'.args)
           IN /\ twice.contacts = once.contacts
              /\ twice.name_index = once.name_index
              /\ twice.phone_index = once.phone_index
              /\ twice.email_index = once.email_index ]_vars

\* C23 witness: an update has just given a stored contact the phone or the
\* lowercased email of another stored contact
C23_Witness ==
    /\ lastOp.op = "update"
    /\ lastOp.ret # None
    /\ DOMAIN lastOp.args # {}
    /\ \E j \in DOMAIN contacts \ {lastOp.id} :
          \/ contacts[j].phone = lastOp.ret.phone /\ lastOp.was.phone # lastOp.ret.phone
          \/ /\ Lower(contacts[j].email) = Lower(lastOp.ret.email)
             /\ Lower(lastOp.was.email) # Lower(lastOp.ret.email)

(***************************************************************************)
(* C24.  The name index never holds an empty set: in every reachable       *)
(* state each token that is a key of the name index maps to a non-empty    *)
(* set of ids, the key being deleted as soon as its last id is discarded,  *)
(* so an empty store has an empty name index.                              *)
(***************************************************************************)
C24_NoEmptyTokenSet ==
    /\ \A word \in DOMAIN name_index : name_index[word] # {}
    /\ contacts = EmptyDict => name_index = EmptyDict

\* C24 witness: an update has just taken the last id out of a token's set, the
\* token is no longer a key, and other tokens still are
C24_Witness ==
    /\ lastOp.op = "update"
    /\ lastOp.ret # None
    /\ \E word \in NameTokens(lastOp.was) \ NameTokens(lastOp.ret) :
          word \notin DOMAIN name_index
    /\ Cardinality(DOMAIN contacts) = 2

====
